---- MODULE Spec2Model ----
(***************************************************************************)
(* The /evaluate pipeline of app.py: request validation, transcript        *)
(* acquisition with language fallback, search-query generation, evidence   *)
(* retrieval and evaluation synthesis, with the catch-all error handler.   *)
(*                                                                         *)
(* Text is a sequence of non-empty tokens; the empty string is <<>>.       *)
(* A JSON value is a record [t |-> type, v |-> text].                      *)
(***************************************************************************)
EXTENDS Integers, Sequences, FiniteSets, TLC

\* ------------------------------------------------------------------ bounds
NumRuns == 2        \* request slots of the server
MaxList == 2        \* longest list list_transcripts returns
MaxItems == 2       \* most items in a search response

Runs == 1..NumRuns

\* --------------------------------------------------------------- JSON, text
Absent == [t |-> "absent", v |-> <<>>]
JStr(s) == [t |-> "str", v |-> s]
JNum(n) == [t |-> "num", v |-> <<n>>]

\* Python truthiness of what data.get("videoId") returns (app.py:94).
FalsyNoEmptyString(j) == j.t = "absent" \/ j = JNum("0")
Falsy(j) == j.t = "absent" \/ j = JStr(<<>>) \/ j = JNum("0")

VideoIds == {Absent, JStr(<<>>), JStr(<<"vidA">>), JNum("0"), JNum("7")}

\* Request payloads: no JSON body at all, a JSON body that is not an object,
\* or an object with or without a videoId member.
Payloads ==
    {[kind |-> "nojson", videoId |-> Absent], [kind |-> "nonobject", videoId |-> Absent]}
    \cup {[kind |-> "object", videoId |-> j] : j \in VideoIds}

Whitespace == {" ", "\n"}

\* str.strip(): drop leading and trailing whitespace (app.py:67).
RECURSIVE LStrip(_)
LStrip(s) == IF s # <<>> /\ Head(s) \in Whitespace THEN LStrip(Tail(s)) ELSE s
RECURSIVE RStrip(_)
RStrip(s) ==
    IF s # <<>> /\ s[Len(s)] \in Whitespace THEN RStrip(SubSeq(s, 1, Len(s) - 1)) ELSE s
Strip(s) == RStrip(LStrip(s))

\* sep.join(parts) for a sequence of texts.
RECURSIVE JoinWith(_, _)
JoinWith(sep, parts) ==
    IF parts = <<>> THEN <<>>
    ELSE IF Len(parts) = 1 THEN parts[1]
    ELSE parts[1] \o <<sep>> \o JoinWith(sep, Tail(parts))

\* " ".join([entry["text"] for entry in transcript_entries]) (app.py:100).
FullText(segs) == JoinWith(" ", [i \in 1..Len(segs) |-> segs[i].text])

\* --------------------------------------------------------------- responses
NoResponse == [status |-> 0, key |-> "none", value |-> <<>>]
BadRequest == [status |-> 400, key |-> "error", value |-> <<"videoId is required">>]
SuccessUnderOtherKey(evaluation) == [status |-> 200, key |-> "result", value |-> evaluation]
Success(evaluation) == [status |-> 200, key |-> "evaluation", value |-> evaluation]
\* Responses the framework produces for an exception that leaves evaluate().
FrameworkError(st) == [status |-> st, key |-> "html", value |-> <<"framework error page">>]

NoError == [type |-> "none", msg |-> <<>>]
\* raise Exception("Could not retrieve any transcript for video: " + video_id)
\* (app.py:55); str + non-str raises TypeError instead.
TranscriptUnavailableAnonymous(vid) ==
    [type |-> "Exception", msg |-> <<"Could not retrieve any transcript for video: ">>]
TranscriptUnavailable(vid) ==
    IF vid.t = "str"
    THEN [type |-> "Exception",
          msg |-> <<"Could not retrieve any transcript for video: ">> \o vid.v]
    ELSE [type |-> "TypeError", msg |-> <<"can only concatenate str to str">>]
ProviderError(what) == [type |-> "ProviderError", msg |-> <<what>>]

\* except Exception: return jsonify({"error": "Failed to evaluate content"}), 500
LeakyFailureResponse(e) == [status |-> 500, key |-> "error", value |-> e.msg]
FailureResponse(e) ==
    [status |-> 500, key |-> "error", value |-> <<"Failed to evaluate content">>]

\* ---------------------------------------------------- transcript provider
Langs == {"en", "de", "hi"}
FetchOutcomes == {"raise", "zero", "two"}

\* What a fetch of the transcript in language l yields under outcome o.
Fetched(l, o) ==
    [ok |-> o # "raise",
     segs |-> IF o = "two" THEN <<[text |-> <<l>>], [text |-> <<"words">>]>> ELSE <<>>]

LangSeqs ==
    UNION {{s \in [1..n -> Langs] : \A i, j \in 1..n : s[i] = s[j] => i = j} : n \in 0..MaxList}

\* The lists list_transcripts can return: distinct transcripts, in provider
\* order, each with the outcome its fetch() will have.
TranscriptLists ==
    UNION {{[i \in 1..Len(s) |-> [language |-> s[i], outcome |-> f[i]]] :
              f \in [1..Len(s) -> FetchOutcomes]} : s \in LangSeqs}

\* ----------------------------------------------------------- generation
\* Raw response.text values of the model, before strip().
GenTexts == {<<>>, <<" ">>, <<" ", "text", "\n">>}
GenOutcomes == {[ok |-> FALSE, text |-> <<>>]} \cup {[ok |-> TRUE, text |-> t] : t \in GenTexts}

\* ------------------------------------------------------------ web search
ItemFull == [k \in {"title", "link", "snippet"} |-> <<k>>]
ItemNoSnippet == [k \in {"title", "link"} |-> <<k, "2">>]
Items == {ItemFull, ItemNoSnippet}
ItemLists == UNION {[1..n -> Items] : n \in 0..MaxItems}

\* dict.get(key, default)
Get(d, key, default) == IF key \in DOMAIN d THEN d[key] ELSE default

\* JSON object of a search response, with the members named in keys.
Data(keys, l) == [k \in keys |-> l]

\* What requests.get / response.json() can yield.
\*   transport : requests.get raises (no response)
\*   status    : a response whose status_code is not 200
\*   badjson   : status 200, response.json() raises
\*   json      : status 200, a JSON object with or without "items"
SearchOutcomes ==
    {[kind |-> "transport", status |-> 0, data |-> Data({}, <<>>)]}
    \cup {[kind |-> "status", status |-> st, data |-> Data({}, <<>>)] : st \in {403, 500}}
    \cup {[kind |-> "badjson", status |-> 200, data |-> Data({}, <<>>)]}
    \cup {[kind |-> "json", status |-> 200, data |-> Data({}, <<>>)]}
    \cup {[kind |-> "json", status |-> 200, data |-> Data({"items"}, l)] : l \in ItemLists}

\* f"{title}: {link} - {snippet}" (app.py:78-81)
Render(item) ==
    Get(item, "title", <<>>) \o <<": ">> \o Get(item, "link", <<>>) \o <<" - ">>
        \o Get(item, "snippet", <<>>)

\* The sources built from a non-empty items list (app.py:76-82).
Sources(items) == [i \in 1..Len(items) |-> Render(items[i])]

\* perform_google_search (app.py:69-87): the list returned, or the exception
\* of requests.get (line 71) or response.json() (line 73).
PerformGoogleSearchEmptyOnNone(o) ==
    IF o.kind \in {"transport", "badjson"}
    THEN [raised |-> TRUE, sources |-> <<>>]
    ELSE IF o.status = 200
    THEN [raised |-> FALSE, sources |-> Sources(Get(o.data, "items", <<>>))]
    ELSE [raised |-> FALSE, sources |-> <<<<"Error fetching search results">>>>]
PerformGoogleSearchEmptyOnError(o) ==
    IF o.kind \in {"transport", "badjson"}
    THEN [raised |-> TRUE, sources |-> <<>>]
    ELSE IF o.status = 200
    THEN LET items == Get(o.data, "items", <<>>) IN
         IF items # <<>>
         THEN [raised |-> FALSE, sources |-> Sources(items)]
         ELSE [raised |-> FALSE, sources |-> <<<<"No reliable sources found">>>>]
    ELSE [raised |-> FALSE, sources |-> <<>>]
PerformGoogleSearch(o) ==
    IF o.kind \in {"transport", "badjson"}
    THEN [raised |-> TRUE, sources |-> <<>>]
    ELSE IF o.status = 200
    THEN LET items == Get(o.data, "items", <<>>) IN
         IF items # <<>>
         THEN [raised |-> FALSE, sources |-> Sources(items)]
         ELSE [raised |-> FALSE, sources |-> <<<<"No reliable sources found">>>>]
    ELSE [raised |-> FALSE, sources |-> <<<<"Error fetching search results">>>>]

\* ------------------------------------------------------------------ state
VARIABLES
    module_state,    \* module-level keys and generation configurations (lines 15-35)
    io,              \* what each run passed to and got from generation and search
    active,          \* the request slots that receive a request
    pc,              \* where each request's handler is
    payload,         \* the request body as received
    video_id,        \* data.get("videoId")
    pref,            \* outcome of get_transcript(video_id, languages=['en'])
    listed,          \* outcome of list_transcripts(video_id)
    transcript_list, \* what list_transcripts returned
    idx,             \* position of the for loop in transcript_list
    transcript,      \* the joined transcript text
    search_query,    \* the generated search query
    search_result,   \* what the web-search call yielded
    reliable_sources,\* the list perform_google_search returned
    err,             \* the exception caught by the handler
    response,        \* the HTTP response
    calls,           \* external calls made, in order
    hist             \* pipeline states entered, in order

vars == <<module_state, io, active, pc, payload, video_id, pref, listed, transcript_list, idx, transcript,
          search_query, search_result, reliable_sources, err, response, calls, hist>>

\* The module-level names bound at import (app.py:15-35); temperature and
\* top_p in hundredths.
ModuleState ==
    [GEMINI_API_KEY |-> "GEMINI_API_KEY", GOOGLE_API_KEY |-> "GOOGLE_API_KEY",
     GOOGLE_CX |-> "GOOGLE_CX",
     generation_config_eval |->
         [temperature |-> 70, top_p |-> 95, top_k |-> 40, max_output_tokens |-> 1000],
     generation_config_query |->
         [temperature |-> 30, top_p |-> 95, top_k |-> 40, max_output_tokens |-> 100]]

NoConfig == [temperature |-> 0, top_p |-> 0, top_k |-> 0, max_output_tokens |-> 0]
NoGen == [state |-> "none", text |-> <<>>]
\* What a generate_text call yielded: the exception, or response.text.
Generated(g) == [state |-> IF g.ok THEN "returned" ELSE "raised", text |-> g.text]
NoIO ==
    [query_config |-> NoConfig, query_out |-> NoGen, search_key |-> <<>>,
     eval_config |-> NoConfig, eval_out |-> NoGen]

NoSearch == [kind |-> "none", status |-> 0, data |-> Data({}, <<>>)]

Call(op, arg) == [op |-> op, arg |-> arg]

InitWith(A) ==
    /\ module_state = ModuleState
    /\ io = [r \in Runs |-> NoIO]
    /\ active = A
    /\ pc = [r \in Runs |-> IF r \in A THEN "start" ELSE "idle"]
    /\ payload = [r \in Runs |-> [kind |-> "none", videoId |-> Absent]]
    /\ video_id = [r \in Runs |-> Absent]
    /\ pref = [r \in Runs |-> "none"]
    /\ listed = [r \in Runs |-> "none"]
    /\ transcript_list = [r \in Runs |-> <<>>]
    /\ idx = [r \in Runs |-> 0]
    /\ transcript = [r \in Runs |-> <<>>]
    /\ search_query = [r \in Runs |-> <<>>]
    /\ search_result = [r \in Runs |-> NoSearch]
    /\ reliable_sources = [r \in Runs |-> <<>>]
    /\ err = [r \in Runs |-> NoError]
    /\ response = [r \in Runs |-> NoResponse]
    /\ calls = [r \in Runs |-> <<>>]
    /\ hist = [r \in Runs |-> IF r \in A THEN <<"ValidatingInput">> ELSE <<>>]

Init == InitWith({1})

\* -------------------------------------------------------- shared outcomes
\* The except clause of evaluate (app.py:164-166).
FailIntoSharedResponse(r, e, cs) ==
    /\ pc' = [pc EXCEPT ![r] = "failed"]
    /\ err' = [err EXCEPT ![r] = e]
    /\ response' = [q \in Runs |-> FailureResponse(e)]
    /\ calls' = [calls EXCEPT ![r] = cs]
    /\ hist' = [hist EXCEPT ![r] = Append(@, "Failed")]
Fail(r, e, cs) ==
    /\ pc' = [pc EXCEPT ![r] = "failed"]
    /\ err' = [err EXCEPT ![r] = e]
    /\ response' = [response EXCEPT ![r] = FailureResponse(e)]
    /\ calls' = [calls EXCEPT ![r] = cs]
    /\ hist' = [hist EXCEPT ![r] = Append(@, "Failed")]

\* get_transcript_any_language returned segs: join them (app.py:100) and go
\* on to the query prompt.
TranscriptReady(r, segs, cs) ==
    /\ transcript' = [transcript EXCEPT ![r] = FullText(segs)]
    /\ pc' = [pc EXCEPT ![r] = "generate_query"]
    /\ calls' = [calls EXCEPT ![r] = cs]
    /\ hist' = [hist EXCEPT ![r] = Append(@, "GeneratingQuery")]
    /\ UNCHANGED <<err, response>>

\* ---------------------------------------------------------------- actions
\* evaluate, lines 92-95: read the payload and validate videoId.
Validate(r) ==
    /\ pc[r] = "start"
    /\ \E p \in Payloads :
        /\ payload' = [payload EXCEPT ![r] = p]
        /\ CASE p.kind = "nojson" ->
                  \* request.get_json() raises an HTTP error outside the try (400
                  \* or 415), or returns None and data.get raises (500)
                  \E st \in {400, 415, 500} :
                    /\ pc' = [pc EXCEPT ![r] = "escaped"]
                    /\ response' = [response EXCEPT ![r] = FrameworkError(st)]
                    /\ UNCHANGED <<video_id, hist>>
             [] p.kind = "nonobject" ->
                  \* data.get raises AttributeError outside the try
                  /\ pc' = [pc EXCEPT ![r] = "escaped"]
                  /\ response' = [response EXCEPT ![r] = FrameworkError(500)]
                  /\ UNCHANGED <<video_id, hist>>
             [] OTHER ->
                  /\ video_id' = [video_id EXCEPT ![r] = p.videoId]
                  /\ IF Falsy(p.videoId)
                     THEN /\ pc' = [pc EXCEPT ![r] = "rejected"]
                          /\ response' = [response EXCEPT ![r] = BadRequest]
                          /\ UNCHANGED hist
                     ELSE /\ pc' = [pc EXCEPT ![r] = "get_transcript"]
                          /\ hist' = [hist EXCEPT ![r] = Append(@, "FetchingTranscript")]
                          /\ UNCHANGED response
    /\ UNCHANGED <<module_state, io, active,
                   pref, listed, transcript_list, idx, transcript, search_query,
                   search_result, reliable_sources, err, calls>>

\* get_transcript_any_language, lines 43-45: the English transcript first.
GetTranscriptAlwaysFallsBack(r) ==
    /\ pc[r] = "get_transcript"
    /\ \E o \in FetchOutcomes :
        /\ pref' = [pref EXCEPT ![r] = o]
        /\ pc' = [pc EXCEPT ![r] = "list_transcripts"]
        /\ calls' = [calls EXCEPT ![r] = Append(@, Call("get_transcript", "en"))]
        /\ UNCHANGED <<transcript, err, response, hist>>
    /\ UNCHANGED <<module_state, io, active,
                   payload, video_id, listed, transcript_list, idx, search_query,
                   search_result, reliable_sources>>
GetTranscript(r) ==
    /\ pc[r] = "get_transcript"
    /\ \E o \in FetchOutcomes :
        LET cs == Append(calls[r], Call("get_transcript", "en")) IN
        /\ pref' = [pref EXCEPT ![r] = o]
        /\ IF Fetched("en", o).ok
           THEN TranscriptReady(r, Fetched("en", o).segs, cs)
           ELSE /\ pc' = [pc EXCEPT ![r] = "list_transcripts"]
                /\ calls' = [calls EXCEPT ![r] = cs]
                /\ UNCHANGED <<transcript, err, response, hist>>
    /\ UNCHANGED <<module_state, io, active,
                   payload, video_id, listed, transcript_list, idx, search_query,
                   search_result, reliable_sources>>

\* get_transcript_any_language, line 48: list the available transcripts.
\* An empty list falls through the loop to the raise of line 55.
ListTranscripts(r) ==
    /\ pc[r] = "list_transcripts"
    /\ LET cs == Append(calls[r], Call("list_transcripts", "")) IN
       \/ /\ listed' = [listed EXCEPT ![r] = "raise"]
          /\ Fail(r, ProviderError("list_transcripts"), cs)
          /\ UNCHANGED <<transcript_list, idx, transcript>>
       \/ \E l \in TranscriptLists :
            /\ listed' = [listed EXCEPT ![r] = "ok"]
            /\ transcript_list' = [transcript_list EXCEPT ![r] = l]
            /\ IF l = <<>>
               THEN /\ Fail(r, TranscriptUnavailable(video_id[r]), cs)
                    /\ UNCHANGED idx
               ELSE /\ idx' = [idx EXCEPT ![r] = 1]
                    /\ pc' = [pc EXCEPT ![r] = "fetch"]
                    /\ calls' = [calls EXCEPT ![r] = cs]
                    /\ UNCHANGED <<err, response, hist>>
            /\ UNCHANGED transcript
    /\ UNCHANGED <<module_state, io, active,
                   payload, video_id, pref, search_query, search_result,
                   reliable_sources>>

\* get_transcript_any_language, lines 49-55: one iteration of the loop. The
\* first fetch that does not raise is returned; after the last entry the
\* function raises.
FetchKeepsGoing(r) ==
    /\ pc[r] = "fetch"
    /\ LET t == transcript_list[r][idx[r]]
           res == Fetched(t.language, t.outcome)
           cs == Append(calls[r], Call("fetch", t.language))
       IN IF idx[r] < Len(transcript_list[r])
          THEN /\ idx' = [idx EXCEPT ![r] = @ + 1]
               /\ calls' = [calls EXCEPT ![r] = cs]
               /\ UNCHANGED <<pc, transcript, err, response, hist>>
          ELSE IF res.ok
          THEN TranscriptReady(r, res.segs, cs) /\ UNCHANGED idx
          ELSE /\ Fail(r, TranscriptUnavailable(video_id[r]), cs)
               /\ UNCHANGED <<idx, transcript>>
    /\ UNCHANGED <<module_state, io, active,
                   payload, video_id, pref, listed, transcript_list, search_query,
                   search_result, reliable_sources>>
Fetch(r) ==
    /\ pc[r] = "fetch"
    /\ LET t == transcript_list[r][idx[r]]
           res == Fetched(t.language, t.outcome)
           cs == Append(calls[r], Call("fetch", t.language))
       IN IF res.ok
          THEN TranscriptReady(r, res.segs, cs) /\ UNCHANGED idx
          ELSE IF idx[r] < Len(transcript_list[r])
          THEN /\ idx' = [idx EXCEPT ![r] = @ + 1]
               /\ calls' = [calls EXCEPT ![r] = cs]
               /\ UNCHANGED <<pc, transcript, err, response, hist>>
          ELSE /\ Fail(r, TranscriptUnavailable(video_id[r]), cs)
               /\ UNCHANGED <<idx, transcript>>
    /\ UNCHANGED <<module_state, io, active,
                   payload, video_id, pref, listed, transcript_list, search_query,
                   search_result, reliable_sources>>

\* evaluate, line 116: generate_text(prompt_for_query, generation_config_query).
GenerateQueryContinuesOnError(r) ==
    /\ pc[r] = "generate_query"
    /\ \E g \in GenOutcomes :
         /\ Len(g.text) <= module_state.generation_config_query.max_output_tokens
         /\ io' = [io EXCEPT ![r].query_config = module_state.generation_config_query,
                             ![r].query_out = Generated(g)]
         /\ search_query' = [search_query EXCEPT ![r] = Strip(g.text)]
         /\ err' = [err EXCEPT ![r] =
                IF g.ok THEN @ ELSE [type |-> "GenerationError", msg |-> <<"query">>]]
         /\ pc' = [pc EXCEPT ![r] = "search"]
         /\ calls' = [calls EXCEPT ![r] = Append(@, Call("generate_text", "query"))]
         /\ hist' = [hist EXCEPT ![r] = Append(@, "RetrievingEvidence")]
         /\ UNCHANGED response
    /\ UNCHANGED <<module_state, active, payload, video_id, pref, listed, transcript_list, idx,
                   transcript, search_result, reliable_sources>>
GenerateQuery(r) ==
    /\ pc[r] = "generate_query"
    /\ LET cs == Append(calls[r], Call("generate_text", "query")) IN
       \E g \in GenOutcomes :
         /\ Len(g.text) <= module_state.generation_config_query.max_output_tokens
         /\ io' = [io EXCEPT ![r].query_config = module_state.generation_config_query,
                             ![r].query_out = Generated(g)]
         /\ IF g.ok
            THEN /\ search_query' = [search_query EXCEPT ![r] = Strip(g.text)]
                 /\ pc' = [pc EXCEPT ![r] = "search"]
                 /\ calls' = [calls EXCEPT ![r] = cs]
                 /\ hist' = [hist EXCEPT ![r] = Append(@, "RetrievingEvidence")]
                 /\ UNCHANGED <<err, response>>
            ELSE /\ Fail(r, [type |-> "GenerationError", msg |-> <<"query">>], cs)
                 /\ UNCHANGED search_query
    /\ UNCHANGED <<module_state, active, payload, video_id, pref, listed, transcript_list, idx,
                   transcript, search_result, reliable_sources>>

\* evaluate, lines 120-124: perform_google_search(search_query).
Search(r) ==
    /\ pc[r] = "search"
    /\ LET cs == Append(calls[r], Call("requests.get", "customsearch")) IN
       \E o \in SearchOutcomes :
         LET got == PerformGoogleSearch(o) IN
         /\ io' = [io EXCEPT ![r].search_key =
                      <<module_state.GOOGLE_API_KEY, module_state.GOOGLE_CX>>]
         /\ search_result' = [search_result EXCEPT ![r] = o]
         /\ IF got.raised
            THEN /\ Fail(r, [type |-> "RequestError", msg |-> <<o.kind>>], cs)
                 /\ UNCHANGED reliable_sources
            ELSE /\ reliable_sources' = [reliable_sources EXCEPT ![r] = got.sources]
                 /\ pc' = [pc EXCEPT ![r] = "generate_eval"]
                 /\ calls' = [calls EXCEPT ![r] = cs]
                 /\ hist' = [hist EXCEPT ![r] = Append(@, "SynthesizingEvaluation")]
                 /\ UNCHANGED <<err, response>>
    /\ UNCHANGED <<module_state, active, payload, video_id, pref, listed, transcript_list, idx,
                   transcript, search_query>>

\* evaluate, lines 159-162: generate_text(prompt_evaluation,
\* generation_config_eval) and the 200 response.
GenerateEvaluation(r) ==
    /\ pc[r] = "generate_eval"
    /\ LET cs == Append(calls[r], Call("generate_text", "evaluation")) IN
       \E g \in GenOutcomes :
         /\ Len(g.text) <= module_state.generation_config_eval.max_output_tokens
         /\ io' = [io EXCEPT ![r].eval_config = module_state.generation_config_eval,
                             ![r].eval_out = Generated(g)]
         /\ IF g.ok
            THEN /\ response' = [response EXCEPT ![r] = Success(Strip(g.text))]
                 /\ pc' = [pc EXCEPT ![r] = "done"]
                 /\ calls' = [calls EXCEPT ![r] = cs]
                 /\ hist' = [hist EXCEPT ![r] = Append(@, "Done")]
                 /\ UNCHANGED err
            ELSE Fail(r, [type |-> "GenerationError", msg |-> <<"evaluation">>], cs)
    /\ UNCHANGED <<module_state, active, payload, video_id, pref, listed, transcript_list, idx,
                   transcript, search_query, search_result, reliable_sources>>

Next ==
    \E r \in Runs :
        \/ Validate(r)
        \/ GetTranscript(r)
        \/ ListTranscripts(r)
        \/ Fetch(r)
        \/ GenerateQuery(r)
        \/ Search(r)
        \/ GenerateEvaluation(r)

Spec == Init /\ [][Next]_vars

\* ------------------------------------------------------- derived notions
IsListFetch(c) == c.op = "fetch"

\* The external calls, by the line that makes them.
PreferredCalls == {Call("get_transcript", "en")}
ListingCalls == {Call("list_transcripts", "")}
ListFetchCalls == {Call("fetch", l) : l \in Langs}
QueryCalls == {Call("generate_text", "query")}
SearchCalls == {Call("requests.get", "customsearch")}
EvalCalls == {Call("generate_text", "evaluation")}

\* How many of the calls made so far by run r are in S.
Count(r, S) == Cardinality({i \in 1..Len(calls[r]) : calls[r][i] \in S})

\* Fetch attempts of run r on the transcript in language l: the
\* preferred-language attempt of line 45 is an attempt on "en".
FetchAttempts(r, l) ==
    Count(r, {Call("fetch", l)} \cup {c \in PreferredCalls : c.arg = l})

Entered(r, stage) == \E i \in 1..Len(hist[r]) : hist[r][i] = stage
Last(s) == s[Len(s)]
IsPrefix(s, t) == Len(s) <= Len(t) /\ SubSeq(t, 1, Len(s)) = s

GenericFailure == [status |-> 500, key |-> "error", value |-> <<"Failed to evaluate content">>]

\* Positions of transcript_list[r] whose fetch succeeds.
Fetchable(r) ==
    {i \in 1..Len(transcript_list[r]) : transcript_list[r][i].outcome # "raise"}
Min(S) == CHOOSE x \in S : \A y \in S : x <= y

\* ------------------------------------------------------------------ claims

\* C1: an object body with no videoId member, or with videoId "", is answered
\* with exactly 400 {"error": "videoId is required"}, and the request makes no
\* external call (transcript provider, generation, web search).
C1_MissingVideoIdRejected ==
    \A r \in Runs :
        (payload[r].kind = "object" /\ payload[r].videoId \in {Absent, JStr(<<>>)})
            => /\ response[r] = [status |-> 400, key |-> "error",
                                 value |-> <<"videoId is required">>]
               /\ calls[r] = <<>>
               /\ pc[r] = "rejected"

C1_Witness ==
    \E r \in Runs :
        /\ payload[r] = [kind |-> "object", videoId |-> JStr(<<>>)]
        /\ response[r].status = 400

\* C2 (as claimed): whatever the web-search call yields (transport failure,
\* non-success status, success with or without items), perform_google_search
\* returns a list and the run goes on to SynthesizingEvaluation; it never goes
\* from RetrievingEvidence to Failed. Stated for the runs that reached
\* RetrievingEvidence with a non-empty transcript.
C2_EvidenceRetrievalNeverFails ==
    \A r \in Runs :
        (search_result[r].kind \in {"transport", "status", "json"} /\ transcript[r] # <<>>)
            => /\ err[r].type # "RequestError"
               /\ Entered(r, "SynthesizingEvaluation")
               /\ \A i \in 1..(Len(hist[r]) - 1) :
                      ~(hist[r][i] = "RetrievingEvidence" /\ hist[r][i + 1] = "Failed")

\* C3: a request with a non-empty videoId in which a stage raises is answered
\* with 500 and exactly {"error": "Failed to evaluate content"}, whichever
\* stage raised and whatever the exception; nothing of the exception is in
\* the response.
C3_UniformFailureResponse ==
    \A r \in Runs :
        err[r] # NoError
            => /\ ~Falsy(video_id[r])
               /\ response[r] = GenericFailure
               /\ \A i \in 1..Len(err[r].msg) :
                      \A j \in 1..Len(response[r].value) : response[r].value[j] # err[r].msg[i]
               /\ pc[r] = "failed"

C3_Witness ==
    \E r \in Runs :
        /\ err[r] = [type |-> "GenerationError", msg |-> <<"evaluation">>]
        /\ response[r].status = 500

\* C4 (as claimed): in one invocation of get_transcript_any_language no
\* transcript is fetched twice, the English one tried first included.
C4_EachEntryFetchedAtMostOnce ==
    \A r \in Runs : \A l \in Langs : FetchAttempts(r, l) <= 1

\* C5 (as claimed): whenever the query-generation stage is entered the joined
\* transcript text is non-empty.
C5_TranscriptNonEmpty ==
    \A r \in Runs : Entered(r, "GeneratingQuery") => transcript[r] # <<>>

\* C6: when the English fetch succeeds its transcript is what is returned, and
\* the fallback is not entered: list_transcripts is not called and no listed
\* transcript is fetched.
C6_PreferredLanguageShortCircuits ==
    \A r \in Runs :
        pref[r] \in {"zero", "two"}
            => /\ transcript[r] = FullText(Fetched("en", pref[r]).segs)
               /\ \A i \in 1..Len(calls[r]) : calls[r][i].op \notin {"list_transcripts", "fetch"}
               /\ listed[r] = "none"
               /\ Entered(r, "GeneratingQuery")

C6_Witness ==
    \E r \in Runs : pref[r] = "two" /\ pc[r] = "search" /\ Len(calls[r]) = 2

\* C7: when the English fetch fails and some listed transcript is fetchable,
\* the function returns the fetchable transcript with the smallest position:
\* every entry before it was attempted (and failed), in order, and no entry
\* after it is attempted.
C7_FirstFetchableWins ==
    \A r \in Runs :
        (pref[r] = "raise" /\ listed[r] = "ok" /\ Fetchable(r) # {})
            => LET k == Min(Fetchable(r))
                   l == transcript_list[r]
                   n == IF pc[r] = "fetch" THEN idx[r] - 1 ELSE k
               IN /\ n <= k
                  /\ SelectSeq(calls[r], IsListFetch)
                        = [i \in 1..n |-> Call("fetch", l[i].language)]
                  /\ pc[r] # "fetch"
                        => /\ transcript[r] = FullText(Fetched(l[k].language, l[k].outcome).segs)
                           /\ Entered(r, "GeneratingQuery")
                           /\ err[r].type \notin {"Exception", "TypeError", "ProviderError"}

C7_Witness ==
    \E r \in Runs :
        /\ pref[r] = "raise" /\ listed[r] = "ok"
        /\ Len(transcript_list[r]) = 2
        /\ Fetchable(r) = {2}
        /\ pc[r] = "generate_query"

\* C8: when the English fetch fails and every listed transcript fails to
\* fetch, get_transcript_any_language raises; for a string videoId the
\* exception text ends with that videoId. The run fails without a generation
\* or search call and the response is the generic 500.
ZeroFetchable(r) ==
    /\ pref[r] = "raise"
    /\ \/ listed[r] = "raise"
       \/ listed[r] = "ok" /\ Fetchable(r) = {} /\ pc[r] # "fetch"

C8_NoTranscriptFails ==
    \A r \in Runs :
        ZeroFetchable(r)
            => /\ pc[r] = "failed"
               /\ hist[r] = <<"ValidatingInput", "FetchingTranscript", "Failed">>
               /\ Count(r, QueryCalls \cup SearchCalls \cup EvalCalls) = 0
               /\ response[r] = GenericFailure
               /\ (listed[r] = "ok" /\ video_id[r].t = "str")
                     => /\ err[r].type = "Exception"
                        /\ Len(err[r].msg) = 1 + Len(video_id[r].v)
                        /\ SubSeq(err[r].msg, 2, Len(err[r].msg)) = video_id[r].v

C8_Witness ==
    \E r \in Runs :
        /\ ZeroFetchable(r)
        /\ Len(transcript_list[r]) = 2
        /\ video_id[r] = JStr(<<"vidA">>)

\* C9: the stages are entered in the order FetchingTranscript,
\* GeneratingQuery, RetrievingEvidence, SynthesizingEvaluation, Done; a
\* stage's call is made at most once and only once the stage is entered; a
\* raised error ends the run in Failed at once, with no later stage entered.
StageOrder ==
    <<"ValidatingInput", "FetchingTranscript", "GeneratingQuery", "RetrievingEvidence",
      "SynthesizingEvaluation", "Done">>

C9_StagesInOrder ==
    \A r \in active :
        LET h == hist[r]
            failed == Last(h) = "Failed"
            forward == IF failed THEN SubSeq(h, 1, Len(h) - 1) ELSE h
        IN /\ IsPrefix(forward, StageOrder)
           /\ failed => Len(forward) \in 2..5
           /\ failed <=> err[r] # NoError
           /\ failed <=> pc[r] = "failed"
           /\ Count(r, PreferredCalls) <= 1
           /\ Count(r, ListingCalls) <= 1
           /\ Count(r, QueryCalls) <= 1
           /\ Count(r, SearchCalls) <= 1
           /\ Count(r, EvalCalls) <= 1
           /\ Count(r, PreferredCalls \cup ListFetchCalls) + Count(r, ListingCalls) > 0 => Len(forward) >= 2
           /\ Count(r, QueryCalls) > 0 => Len(forward) >= 3
           /\ Count(r, SearchCalls) > 0 => Len(forward) >= 4
           /\ Count(r, EvalCalls) > 0 => Len(forward) >= 5
           /\ Len(forward) >= 4 => Count(r, QueryCalls) = 1
           /\ Len(forward) >= 5 => Count(r, SearchCalls) = 1
           /\ Len(forward) >= 6 => Count(r, EvalCalls) = 1

C9_Witness ==
    \E r \in Runs :
        /\ hist[r] = <<"ValidatingInput", "FetchingTranscript", "GeneratingQuery",
                       "RetrievingEvidence", "Failed">>
        /\ Count(r, EvalCalls) = 0

\* C10: a successful search response with zero items makes
\* perform_google_search return exactly ["No reliable sources found"], and the
\* run enters SynthesizingEvaluation: the evaluation generation call is the
\* next call, or has been made.
C10_ZeroItemsSentinel ==
    \A r \in Runs :
        (search_result[r].kind = "json" /\ Get(search_result[r].data, "items", <<>>) = <<>>)
            => /\ reliable_sources[r] = << <<"No reliable sources found">> >>
               /\ Entered(r, "SynthesizingEvaluation")
               /\ pc[r] = "generate_eval" \/ Count(r, EvalCalls) = 1

C10_Witness ==
    \E r \in Runs :
        /\ search_result[r].kind = "json"
        /\ search_result[r].data = Data({"items"}, <<>>)
        /\ Count(r, EvalCalls) = 1

\* C11: a non-success status makes perform_google_search return exactly
\* ["Error fetching search results"], which is not the zero-results sentinel
\* ["No reliable sources found"]; whenever perform_google_search returns, the
\* list has at least one element.
C11_ErrorSentinelNeverEmpty ==
    \A r \in Runs :
        /\ search_result[r].kind = "status"
              => /\ reliable_sources[r] = << <<"Error fetching search results">> >>
                 /\ reliable_sources[r] # << <<"No reliable sources found">> >>
                 /\ Entered(r, "SynthesizingEvaluation")
        /\ Entered(r, "SynthesizingEvaluation") => Len(reliable_sources[r]) >= 1
        /\ (search_result[r].kind # "none" /\ ~PerformGoogleSearch(search_result[r]).raised)
              => /\ Len(reliable_sources[r]) >= 1
                 /\ reliable_sources[r] = PerformGoogleSearch(search_result[r]).sources

C11_Witness ==
    \E r \in Runs :
        /\ search_result[r].kind = "status"
        /\ search_result[r].status = 403
        /\ pc[r] = "generate_eval"

\* C12: when the English fetch succeeds, generate_text returns a non-empty
\* query, the search returns at least one item and generate_text returns a
\* non-empty evaluation, the run ends in Done with 200 {"evaluation": s}, s
\* that non-empty text; and a 200 response is produced only after all four
\* stages completed, each called once.
EndToEndInputs(r) ==
    /\ pref[r] # "none" /\ Fetched("en", pref[r]).ok
    /\ io[r].query_out.state = "returned" /\ Strip(io[r].query_out.text) # <<>>
    /\ search_result[r].kind = "json"
    /\ Len(Get(search_result[r].data, "items", <<>>)) >= 1
    /\ io[r].eval_out.state = "returned" /\ Strip(io[r].eval_out.text) # <<>>

C12_EndToEndSuccess ==
    \A r \in Runs :
        /\ EndToEndInputs(r)
              => /\ pc[r] = "done"
                 /\ hist[r] = StageOrder
                 /\ response[r].status = 200
                 /\ response[r].key = "evaluation"
                 /\ response[r].value = Strip(io[r].eval_out.text)
                 /\ response[r].value # <<>>
        /\ response[r].status = 200
              => /\ hist[r] = StageOrder
                 /\ response[r].key = "evaluation"
                 /\ Count(r, PreferredCalls \cup ListFetchCalls) >= 1
                 /\ Count(r, QueryCalls) = 1 /\ io[r].query_out.state = "returned"
                 /\ Count(r, SearchCalls) = 1 /\ Len(reliable_sources[r]) >= 1
                 /\ Count(r, EvalCalls) = 1 /\ io[r].eval_out.state = "returned"

C12_Witness ==
    \E r \in Runs :
        /\ EndToEndInputs(r)
        /\ pref[r] = "two"
        /\ Len(reliable_sources[r]) = 2
        /\ response[r].status = 200

\* C14 (as claimed): whatever the payload, a body that is absent or is not a
\* JSON object included, the response is one of 200 {"evaluation": ...},
\* 400 {"error": "videoId is required"} and 500 {"error": "Failed to evaluate
\* content"}, and no exception leaves the handler.
C14_OnlyThreeResponses ==
    \A r \in Runs :
        /\ pc[r] # "escaped"
        /\ response[r] # NoResponse
              => \/ response[r].status = 200 /\ response[r].key = "evaluation"
                 \/ response[r] = BadRequest
                 \/ response[r] = GenericFailure

\* One step of run r's handler.
RunStep(r) ==
    \/ Validate(r)
    \/ GetTranscript(r)
    \/ ListTranscripts(r)
    \/ Fetch(r)
    \/ GenerateQuery(r)
    \/ Search(r)
    \/ GenerateEvaluation(r)

\* Every external call returns or raises: a handler that can step does step.
FairSpec == Spec /\ \A r \in Runs : WF_vars(RunStep(r))

\* C15 (as claimed): every request ends in exactly one of the 400 validation
\* response, Done and Failed: a run that is in none of them can still take a
\* step; and the fallback loop fetches at most as many times as the list
\* returned by the provider has entries.
C15_EveryRunTerminates ==
    \A r \in active :
        /\ pc[r] \in {"rejected", "done", "failed"} \/ ENABLED RunStep(r)
        /\ Count(r, ListFetchCalls) <= Len(transcript_list[r])

\* What does hold: under FairSpec every handler stops, in one of the three
\* outcomes or with the exception that left it.
HandlerStops ==
    <>(\A r \in active : pc[r] \in {"rejected", "done", "failed", "escaped"})
LoopBounded ==
    \A r \in active : Count(r, ListFetchCalls) <= Len(transcript_list[r])

\* ------------------------------------------------------ concurrent requests
\* The server handles requests concurrently, one thread per request: every
\* slot receives a request and the handlers' steps interleave. The external
\* outcomes are drawn from a part of each input set.
NarrowTexts == {<<>>, <<" ", "text", "\n">>}
Narrow ==
    \A r \in Runs :
        /\ payload[r].kind \in {"none", "object"}
        /\ payload[r].videoId \in {Absent, JStr(<<"vidA">>)}
        /\ pref[r] \in {"none", "raise", "two"}
        /\ Len(transcript_list[r]) <= 1
        /\ \A i \in 1..Len(transcript_list[r]) :
              /\ transcript_list[r][i].language = "de"
              /\ transcript_list[r][i].outcome \in {"raise", "two"}
        /\ io[r].query_out.text \in NarrowTexts
        /\ io[r].eval_out.text \in NarrowTexts
        /\ search_result[r].status \in {0, 200}
        /\ search_result[r].kind # "badjson"
        /\ Get(search_result[r].data, "items", <<>>) \in {<<>>, <<ItemFull>>}
        /\ "items" \in DOMAIN search_result[r].data
              => search_result[r].data["items"] # <<>>

ConcNext ==
    \E r \in Runs :
        \/ Validate(r) /\ Narrow'
        \/ GetTranscript(r) /\ Narrow'
        \/ ListTranscripts(r) /\ Narrow'
        \/ Fetch(r) /\ Narrow'
        \/ GenerateQuery(r) /\ Narrow'
        \/ Search(r) /\ Narrow'
        \/ GenerateEvaluation(r) /\ Narrow'

ConcSpec == InitWith(Runs) /\ [][ConcNext]_vars

\* Everything run q's handler holds or has produced.
RunState(q) ==
    <<pc[q], payload[q], video_id[q], pref[q], listed[q], transcript_list[q], idx[q],
      transcript[q], search_query[q], search_result[q], reliable_sources[q], err[q],
      response[q], calls[q], hist[q], io[q]>>

\* What get_transcript_any_language yields for the outcomes run r met.
SoloTranscript(r) ==
    IF Fetched("en", pref[r]).ok THEN Fetched("en", pref[r])
    ELSE IF listed[r] # "ok" \/ Fetchable(r) = {} THEN [ok |-> FALSE, segs |-> <<>>]
    ELSE LET t == transcript_list[r][Min(Fetchable(r))] IN Fetched(t.language, t.outcome)

SoloFailed(n) ==
    [hist |-> SubSeq(StageOrder, 1, n) \o <<"Failed">>,
     responses |-> {[status |-> 500, key |-> "error",
                     value |-> <<"Failed to evaluate content">>]}]

\* The stages and the response of a request handled alone, start to end, with
\* the module state of start-up and the external outcomes run r met.
Solo(r) ==
    LET p == payload[r] IN
    IF p.kind # "object"
    THEN [hist |-> <<"ValidatingInput">>,
          responses |-> {FrameworkError(st) : st \in {400, 415, 500}}]
    ELSE IF Falsy(p.videoId)
    THEN [hist |-> <<"ValidatingInput">>, responses |-> {BadRequest}]
    ELSE IF ~SoloTranscript(r).ok THEN SoloFailed(2)
    ELSE IF io[r].query_out.state # "returned" THEN SoloFailed(3)
    ELSE IF PerformGoogleSearch(search_result[r]).raised THEN SoloFailed(4)
    ELSE IF io[r].eval_out.state # "returned" THEN SoloFailed(5)
    ELSE [hist |-> StageOrder,
          responses |-> {[status |-> 200, key |-> "evaluation",
                          value |-> Strip(io[r].eval_out.text)]}]

Finished(r) == pc[r] \in {"rejected", "done", "failed", "escaped"}

\* C13: with the requests' steps interleaved in every way, a step of one run
\* changes nothing another run holds, the module-level keys and generation
\* configurations keep their start-up values and are what each call is given,
\* and each finished run's stages and response are those of the same request
\* handled alone with the same external outcomes.
RunsAgreeWithSolo ==
    /\ module_state = ModuleState
    /\ \A r \in Runs :
          /\ io[r].query_config \in {NoConfig, ModuleState.generation_config_query}
          /\ io[r].eval_config \in {NoConfig, ModuleState.generation_config_eval}
          /\ io[r].search_key \in {<<>>, <<ModuleState.GOOGLE_API_KEY, ModuleState.GOOGLE_CX>>}
          /\ Finished(r) => hist[r] = Solo(r).hist /\ response[r] \in Solo(r).responses

OneRunPerStep ==
    /\ module_state' = module_state
    /\ \E r \in Runs : \A q \in Runs \ {r} : RunState(q)' = RunState(q)

C13_RunsIndependent == []RunsAgreeWithSolo /\ [][OneRunPerStep]_vars

C13_Witness ==
    \E r, q \in Runs :
        /\ r # q
        /\ pc[r] = "done" /\ response[r].value = <<"text">>
        /\ pc[q] = "failed" /\ err[q].type = "RequestError"
        /\ video_id[r] = video_id[q]
====
